---- MODULE Spec2Model ----
(***************************************************************************)
(* Model of the milestone update route of tc-project-service               *)
(* (src/routes/milestones/update.js).                                      *)
(*                                                                         *)
(* The database holds the milestone rows and the timeline rows.  A request *)
(* runs the handler statement by statement: every query inside the         *)
(* sequelize transaction is one step.  Dates are whole days, counted as    *)
(* integers; a null date is NoDate.  The audit columns (updatedBy,         *)
(* updatedAt) and the pass-through text columns carry no behaviour and are *)
(* left out of the rows.                                                   *)
(***************************************************************************)
EXTENDS Integers, Sequences, FiniteSets, TLC

\* ------------------------------------------------------------------ bounds
MaxReq == 1          \* requests served one after the other in Spec

\* ------------------------------------------------------------------ domains
Ids == 1..3
Timelines == 1..2
Reqs == 1..2
NoDate == 0
ACTIVE == "active"
COMPLETED == "completed"
PLANNED == "planned"
SuppliedStatuses == {ACTIVE, COMPLETED, PLANNED}
SuppliedDates == {NoDate, 3}
SuppliedDurations == 1..2
SuppliedOrders == 1..4
Todays == {4}        \* the days moment.utc() falls on
FieldNames == {"duration", "completionDate", "status", "order", "hidden"}

\* moment.utc(d).add(n, 'days')
AddDays(d, n) == d + n

\* A request body (req.body.param): has names the supplied keys; a key that is
\* not supplied carries a fixed filler value that is never read.  A request of
\* Spec supplies at most two of the fields, a request of SpecConc at most one.
Patches(maxFields) ==
  { p \in [has : SUBSET FieldNames, duration : SuppliedDurations,
           completionDate : SuppliedDates, status : SuppliedStatuses,
           order : SuppliedOrders, hidden : BOOLEAN] :
      /\ Cardinality(p.has) <= maxFields
      /\ "duration" \notin p.has => p.duration = 1
      /\ "completionDate" \notin p.has => p.completionDate = NoDate
      /\ "status" \notin p.has => p.status = PLANNED
      /\ "order" \notin p.has => p.order = 1
      /\ "hidden" \notin p.has => p.hidden = FALSE }

PatchesSeq == Patches(2)
PatchesConc == Patches(1)

NoPatch == [has |-> {}, duration |-> 1, completionDate |-> NoDate,
            status |-> PLANNED, order |-> 1, hidden |-> FALSE]

NoRow == [timelineId |-> 0, order |-> 0, duration |-> 0, startDate |-> NoDate,
          endDate |-> NoDate, completionDate |-> NoDate, status |-> "",
          hidden |-> FALSE]

\* ------------------------------------------------------------------ derivation
\* the status taken as changed whenever one is supplied
statusSupplied(m, p) == "status" \in p.has

\* lines 146-149
durationChanged(m, p) == "duration" \in p.has /\ p.duration # m.duration
statusChanged(m, p) == "status" \in p.has /\ p.status # m.status
completionDateChanged(m, p) ==
  /\ "completionDate" \in p.has
  /\ p.completionDate # NoDate
  /\ m.completionDate # p.completionDate

\* the check left out
CompletionNeverBeforeStart(m, p) == FALSE

\* the 422 check of line 139
CompletionBeforeStart(m, p) ==
  /\ "completionDate" \in p.has
  /\ p.completionDate # NoDate
  /\ p.completionDate < m.startDate

\* The in-memory instance after milestone.update(entityToUpdate): the stored
\* instance m with the supplied and the derived fields set (lines 156-178).
Resolve(m, p, today) ==
  LET sc == statusChanged(m, p)
      suppliedCd == "completionDate" \in p.has /\ p.completionDate # NoDate
      toCompleted == sc /\ p.status = COMPLETED
      toActive == sc /\ p.status = ACTIVE
      forced == ~sc /\ completionDateChanged(m, p)
  IN [timelineId |-> m.timelineId,
      order |-> IF "order" \in p.has THEN p.order ELSE m.order,
      duration |-> IF "duration" \in p.has THEN p.duration ELSE m.duration,
      startDate |-> IF toActive THEN today ELSE m.startDate,
      endDate |-> IF durationChanged(m, p)
                    THEN AddDays(m.startDate, p.duration - 1)
                    ELSE m.endDate,
      completionDate |->
        IF toCompleted
          THEN (IF suppliedCd THEN p.completionDate ELSE today)
          ELSE IF "completionDate" \in p.has THEN p.completionDate
          ELSE m.completionDate,
      status |-> IF forced THEN COMPLETED
                 ELSE IF "status" \in p.has THEN p.status ELSE m.status,
      hidden |-> IF "hidden" \in p.has THEN p.hidden ELSE m.hidden]

\* instance.save(): the columns whose value differs from the loaded instance are
\* written over the row as it is stored now; the other columns are left alone.
SaveChanged(stored, loaded, inst) ==
  [f \in DOMAIN stored |-> IF inst[f] # loaded[f] THEN inst[f] ELSE stored[f]]

\* ------------------------------------------------------------------ reindex
\* the count of lines 189-195
CountAtOrder(view, updated, id) ==
  Cardinality({i \in Ids : /\ view[i].timelineId = updated.timelineId
                           /\ i # id
                           /\ view[i].order = updated.order})

\* the bulk update with the new order left out of the range
ShiftTargetsOpen(view, original, updated, id) ==
  IF original.order < updated.order
    THEN {i \in Ids : /\ view[i].timelineId = updated.timelineId
                      /\ i # id
                      /\ view[i].order >= original.order + 1
                      /\ view[i].order < updated.order}
    ELSE {i \in Ids : /\ view[i].timelineId = updated.timelineId
                      /\ i # id
                      /\ view[i].order > updated.order
                      /\ view[i].order <= original.order - 1}

\* the bulk update without the timelineId in its where clause
ShiftTargetsAnyTimeline(view, original, updated, id) ==
  IF original.order < updated.order
    THEN {i \in Ids : /\ i # id
                      /\ view[i].order >= original.order + 1
                      /\ view[i].order <= updated.order}
    ELSE {i \in Ids : /\ i # id
                      /\ view[i].order >= updated.order
                      /\ view[i].order <= original.order - 1}

\* the bulk update of the rows at the new order alone
ShiftTargetsAtOrder(view, original, updated, id) ==
  {i \in Ids : /\ view[i].timelineId = updated.timelineId
               /\ i # id
               /\ view[i].order = updated.order}

\* the rows the bulk update of lines 203-221 matches
ShiftTargets(view, original, updated, id) ==
  IF original.order < updated.order
    THEN {i \in Ids : /\ view[i].timelineId = updated.timelineId
                      /\ i # id
                      /\ view[i].order >= original.order + 1
                      /\ view[i].order <= updated.order}
    ELSE {i \in Ids : /\ view[i].timelineId = updated.timelineId
                      /\ i # id
                      /\ view[i].order >= updated.order
                      /\ view[i].order <= original.order - 1}

\* the shift always upwards
ShiftDeltaUp(original, updated) == 1

ShiftDelta(original, updated) == IF original.order < updated.order THEN -1 ELSE 1

\* ------------------------------------------------------------------ cascade
\* the trigger without the duration
CascadeOnCompletionOnly(original, updated) ==
  original.completionDate # updated.completionDate

\* the trigger always on
CascadeAlways(original, updated) == TRUE

\* line 226
CascadeTriggered(original, updated) ==
  original.completionDate # updated.completionDate \/ original.duration # updated.duration

\* findAll from the order of the updated milestone on
AffectedFrom(view, updated) ==
  {i \in Ids : /\ view[i].timelineId = updated.timelineId
               /\ view[i].order >= updated.order}

\* the rows findAll returns (lines 28-33)
AffectedIds(view, updated) ==
  {i \in Ids : /\ view[i].timelineId = updated.timelineId
               /\ view[i].order > updated.order}

\* the coming milestones taken in descending order
SortedDescending(view, S) ==
  { s \in [1..Cardinality(S) -> S] :
      /\ \A a, b \in 1..Cardinality(S) : a # b => s[a] # s[b]
      /\ \A a, b \in 1..Cardinality(S) : a < b => view[s[a]].order >= view[s[b]].order }

\* _.sortBy(affectedMilestones, 'order'): every arrangement in ascending order
\* (rows of equal order come in the order the query returned them, which the
\* database does not fix)
SortedByOrder(view, S) ==
  { s \in [1..Cardinality(S) -> S] :
      /\ \A a, b \in 1..Cardinality(S) : a # b => s[a] # s[b]
      /\ \A a, b \in 1..Cardinality(S) : a < b => view[s[a]].order <= view[s[b]].order }

\* the next start taken from the endDate alone
NextStartFromEnd(m) == AddDays(m.endDate, 1)

\* the date the next milestone starts on (lines 35-37 and 63-65)
NextStart(m) ==
  AddDays(IF m.completionDate # NoDate THEN m.completionDate ELSE m.endDate, 1)

\* the activation without the hidden check
ActivatesHidden(found, cdChanged, m) == ~found /\ cdChanged

\* lines 56-60
Activates(found, cdChanged, m) == ~found /\ cdChanged /\ ~m.hidden

\* The loop of lines 39-67 from position k on: for each coming milestone the
\* loaded instance, the instance as modified, and whether the loop activated it.
RECURSIVE Coming(_, _, _, _, _, _)
Coming(view, ids, k, startDate, found, cdChanged) ==
  IF k > Len(ids) THEN << >>
  ELSE LET m == view[ids[k]]
           act == Activates(found, cdChanged, m)
           m2 == [m EXCEPT !.startDate = startDate,
                           !.endDate = AddDays(startDate, m.duration - 1),
                           !.status = IF act THEN ACTIVE ELSE @]
       IN <<[id |-> ids[k], loaded |-> m, inst |-> m2, activated |-> act]>>
          \o Coming(view, ids, k + 1, NextStart(m2), found \/ act, cdChanged)

\* updateComingMilestones up to the saves: the plan of the saves
CascadePlan(view, ids, original, updated) ==
  Coming(view, ids, 1, NextStart(updated), FALSE,
         original.completionDate # updated.completionDate)

\* the last milestone taken to be the updated one
LastEndDateOfUpdated(plan, updated) == updated.endDate

\* line 70: the last coming milestone, or the updated milestone
LastEndDate(plan, updated) ==
  IF Len(plan) > 0 THEN plan[Len(plan)].inst.endDate ELSE updated.endDate

\* ------------------------------------------------------------------ state
VARIABLES
  db,      \* the committed milestone rows, by id
  tl,      \* the committed endDate of every timeline row
  req,     \* the requests: position in the handler, locals, uncommitted writes
  events,  \* the calls of pubsub.publish, in order
  nreq,    \* requests begun so far
  mode     \* "seq": one request at a time; "conc": two requests at once

vars == <<db, tl, req, events, nreq, mode>>

Empty == [i \in {} |-> NoRow]
NoWrites == [i \in {} |-> NoDate]
NoSnapshot == [db |-> Empty, tl |-> NoWrites]

Idle == [pc |-> "idle", n |-> 0, t |-> 0, id |-> 0, patch |-> NoPatch,
         today |-> NoDate, timeline |-> NoDate, failedAt |-> "", undone |-> {},
         published |-> "",
         original |-> NoRow, updated |-> NoRow, wr |-> Empty, tlwr |-> NoWrites,
         pending |-> << >>, coming |-> << >>, cascade |-> FALSE,
         activated |-> {}, lastEnd |-> NoDate,
         pre |-> NoSnapshot, committed |-> FALSE, response |-> "none", code |-> 0]

\* The rows a statement of request r sees: the committed rows, overlaid with the
\* rows the request's own transaction has written.
View(r) == [i \in Ids |-> IF i \in DOMAIN req[r].wr THEN req[r].wr[i] ELSE db[i]]

\* a row another open transaction has written is locked until that one ends
Locked(r, i) == \E o \in Reqs : o # r /\ i \in DOMAIN req[o].wr
TimelineLocked(r, t) == \E o \in Reqs : o # r /\ t \in DOMAIN req[o].tlwr

Write(wr, i, row) == (i :> row) @@ wr

\* A timeline of three milestones with durations 2, 1, 2 from day 1 on, each
\* starting the day after the one before it ends.  hidden2: the second one is
\* hidden; gap: the orders are 1, 3, 4 instead of 1, 2, 3; done: the first one
\* was completed on day 1, a day early, the second one on day 3, a day late, and
\* the third one is active.
InitRows(hidden2, gap, done) ==
  LET s2 == IF done THEN 2 ELSE 3
  IN [i \in Ids |->
       [timelineId |-> 1,
        order |-> IF gap /\ i > 1 THEN i + 1 ELSE i,
        duration |-> IF i = 2 THEN 1 ELSE 2,
        startDate |-> CASE i = 1 -> 1 [] i = 2 -> s2 [] OTHER -> 4,
        endDate |-> CASE i = 1 -> 2 [] i = 2 -> s2 [] OTHER -> 5,
        completionDate |-> CASE done /\ i = 1 -> 1 [] done /\ i = 2 -> 3
                             [] OTHER -> NoDate,
        status |-> CASE done /\ i < 3 -> COMPLETED
                     [] (done /\ i = 3) \/ (~done /\ i = 1) -> ACTIVE
                     [] OTHER -> PLANNED,
        hidden |-> (i = 2 /\ hidden2)]]

\* the initial timelines: <<hidden2, gap, done>>, each pair of choices together
\* in one of them
Shapes == {<<FALSE, FALSE, FALSE>>, <<TRUE, TRUE, FALSE>>,
           <<TRUE, FALSE, TRUE>>, <<FALSE, TRUE, TRUE>>}
ShapesConc == {<<FALSE, FALSE, FALSE>>, <<TRUE, FALSE, FALSE>>}

InitData(shapes) ==
  /\ \E sh \in shapes :
       /\ db = InitRows(sh[1], sh[2], sh[3])
       /\ tl = [t \in Timelines |-> IF t = 1 THEN db[3].endDate ELSE NoDate]
  /\ req = [r \in Reqs |-> Idle]
  /\ events = << >>
  /\ nreq = 0

Init == InitData(Shapes) /\ mode = "seq"
InitConc == InitData(ShapesConc) /\ mode = "conc"

\* the first timeline after its third milestone was moved to the front by an
\* order-only update: the orders are shifted, the dates are as they were
MovedRows ==
  [InitRows(FALSE, FALSE, FALSE) EXCEPT ![1].order = 2, ![2].order = 3, ![3].order = 1]

InitTwice ==
  /\ db \in {InitRows(sh[1], sh[2], sh[3]) : sh \in Shapes} \cup {MovedRows}
  /\ tl = [t \in Timelines |-> IF t = 1 THEN 5 ELSE NoDate]
  /\ req = [r \in Reqs |-> Idle]
  /\ events = << >>
  /\ nreq = 0
  /\ mode = "twice"

\* ------------------------------------------------------------------ the handler
\* lines 113-128: the request arrives with req.timeline loaded, the transaction opens
Begin(r) ==
  /\ CASE mode = "seq" -> r = 1 /\ req[r].pc \in {"idle", "done"} /\ nreq < MaxReq
       [] mode = "twice" -> r = 1 /\ req[r].pc \in {"idle", "done"} /\ nreq < 2
       [] OTHER -> req[r].pc = "idle" /\ \A o \in Reqs : o < r => req[o].pc # "idle"
  /\ \E t \in Timelines, id \in Ids, today \in Todays,
        p \in (IF mode = "conc" THEN PatchesConc ELSE PatchesSeq) :
       \* in mode "twice" the second request is the first one, submitted again
       /\ mode = "twice" /\ nreq = 1 =>
            t = req[r].t /\ id = req[r].id /\ p = req[r].patch
       /\ req' = [req EXCEPT ![r] =
                 [Idle EXCEPT !.pc = "findOne", !.n = nreq + 1, !.t = t, !.id = id, !.patch = p,
                              !.today = today,
                              !.timeline = tl[t],
                              !.pre = [db |-> db, tl |-> tl]]]
  /\ nreq' = nreq + 1
  /\ UNCHANGED <<db, tl, events, mode>>

\* The transaction rolls back and the error goes to next(): lines 133-143, 256
Rejected(q, code) ==
  [Idle EXCEPT !.pc = "done", !.n = q.n, !.t = q.t, !.id = q.id, !.patch = q.patch,
               !.today = q.today, !.pre = q.pre, !.response = "error", !.code = code,
               !.failedAt = q.pc, !.undone = DOMAIN q.wr]

\* the writes kept as if every query had committed on its own
KeptWrites(rows, wr) ==
  [i \in DOMAIN rows |-> IF i \in DOMAIN wr THEN wr[i] ELSE rows[i]]

\* The rows after a transaction that wrote wr is rolled back: the queries of the
\* handler run in the transaction of line 128, and none of its writes is kept.
RolledBack(rows, wr) == rows

\* the cascade entered after every reindex step
AfterReindexCascade(original, updated) == "findAll"

\* where to go after the reindex step: line 226
AfterReindex(original, updated) ==
  IF CascadeTriggered(original, updated) THEN "findAll" ELSE "commit"

\* lines 130-145: findOne, not found, the completionDate check
FindOne(r) ==
  LET q == req[r]
      m == View(r)[q.id]
  IN /\ q.pc = "findOne"
     /\ req' = [req EXCEPT ![r] =
                  IF m.timelineId # q.t THEN Rejected(q, 404)
                  ELSE IF CompletionBeforeStart(m, q.patch) THEN Rejected(q, 422)
                  ELSE [q EXCEPT !.pc = "update", !.original = m]]
     /\ UNCHANGED <<db, tl, events, nreq, mode>>

\* lines 146-187: derive, milestone.update, take the snapshot
Update(r) ==
  LET q == req[r]
      inst == Resolve(q.original, q.patch, q.today)
  IN /\ q.pc = "update"
     /\ ~Locked(r, q.id)
     /\ req' = [req EXCEPT ![r] =
                  [q EXCEPT !.updated = inst,
                            !.wr = IF inst = q.original THEN @
                                   ELSE Write(@, q.id, SaveChanged(View(r)[q.id], q.original, inst)),
                            !.lastEnd = inst.endDate,
                            !.pc = IF q.original.order = inst.order
                                     THEN AfterReindex(q.original, inst)
                                     ELSE "count"]]
     /\ UNCHANGED <<db, tl, events, nreq, mode>>

\* lines 189-199: count the other milestones at the new order
Count(r) ==
  LET q == req[r]
  IN /\ q.pc = "count"
     /\ req' = [req EXCEPT ![r].pc =
                  IF CountAtOrder(View(r), q.updated, q.id) = 0
                    THEN AfterReindex(q.original, q.updated)
                    ELSE "shift"]
     /\ UNCHANGED <<db, tl, events, nreq, mode>>

\* lines 201-221: the bulk order shift
Shift(r) ==
  LET q == req[r]
      v == View(r)
      T == ShiftTargets(v, q.original, q.updated, q.id)
      d == ShiftDelta(q.original, q.updated)
  IN /\ q.pc = "shift"
     /\ \A i \in T : ~Locked(r, i)
     /\ req' = [req EXCEPT ![r] =
                  [q EXCEPT !.wr = [i \in DOMAIN q.wr \cup T |->
                                      IF i \in T THEN [v[i] EXCEPT !.order = @ + d]
                                      ELSE q.wr[i]],
                            !.pc = AfterReindex(q.original, q.updated)]]
     /\ UNCHANGED <<db, tl, events, nreq, mode>>

\* lines 28-65: findAll, sort, compute every coming milestone
FindAll(r) ==
  LET q == req[r]
      v == View(r)
  IN /\ q.pc = "findAll"
     /\ \E ids \in SortedByOrder(v, AffectedIds(v, q.updated)) :
          LET plan == CascadePlan(v, ids, q.original, q.updated)
          IN req' = [req EXCEPT ![r] =
                       [q EXCEPT !.pending = plan,
                                 !.coming = ids,
                                 !.cascade = TRUE,
                                 !.lastEnd = LastEndDate(plan, q.updated),
                                 !.pc = IF Len(plan) > 0 THEN "save" ELSE "sync"]]
     /\ UNCHANGED <<db, tl, events, nreq, mode>>

\* line 66: one milestone.save() of the cascade
Save(r) ==
  LET q == req[r]
      s == Head(q.pending)
  IN /\ q.pc = "save"
     /\ ~Locked(r, s.id)
     /\ req' = [req EXCEPT ![r] =
                  [q EXCEPT !.wr = IF s.inst = s.loaded THEN @
                                   ELSE Write(@, s.id, SaveChanged(View(r)[s.id], s.loaded, s.inst)),
                            !.activated = IF s.activated THEN @ \cup {s.id} ELSE @,
                            !.pending = Tail(@),
                            !.pc = IF Len(q.pending) > 1 THEN "save" ELSE "sync"]]
     /\ UNCHANGED <<db, tl, events, nreq, mode>>

\* lines 228-235: the timeline synchronizer
Sync(r) ==
  LET q == req[r]
  IN /\ q.pc = "sync"
     /\ q.lastEnd # q.timeline => ~TimelineLocked(r, q.t)
     /\ req' = [req EXCEPT ![r] =
                  [q EXCEPT !.tlwr = IF q.lastEnd # q.timeline
                                       THEN (q.t :> q.lastEnd) @@ @ ELSE @,
                            !.timeline = q.lastEnd,
                            !.pc = "commit"]]
     /\ UNCHANGED <<db, tl, events, nreq, mode>>

\* line 239: the transaction commits
Commit(r) ==
  LET q == req[r]
  IN /\ q.pc = "commit"
     /\ db' = [i \in Ids |-> IF i \in DOMAIN q.wr THEN q.wr[i] ELSE db[i]]
     /\ tl' = [t \in Timelines |-> IF t \in DOMAIN q.tlwr THEN q.tlwr[t] ELSE tl[t]]
     /\ req' = [req EXCEPT ![r] =
                  [q EXCEPT !.wr = Empty, !.tlwr = NoWrites, !.committed = TRUE,
                            !.pc = "publish"]]
     /\ UNCHANGED <<events, nreq, mode>>

\* How a call of pubsub.publish can end: it returns, it returns a promise that
\* rejects later, or it throws.
PublishOutcomes == {"returns", "rejects", "throws"}

\* lines 240-256: publish, then the response; a throw goes to catch(next)
Publish(r) ==
  LET q == req[r]
  IN /\ q.pc = "publish"
     /\ events' = Append(events, [n |-> q.n, id |-> q.id,
                                  original |-> q.original, updated |-> q.updated])
     /\ \E o \in PublishOutcomes :
          req' = [req EXCEPT ![r] =
                    [q EXCEPT !.pc = "done", !.published = o,
                              !.response = IF o = "throws" THEN "error" ELSE "ok",
                              !.code = IF o = "throws" THEN 500 ELSE 200]]
     /\ UNCHANGED <<db, tl, nreq, mode>>

\* a query of the transaction fails: the transaction rolls back, catch(next)
InTransaction == {"findOne", "update", "count", "shift", "findAll", "save", "sync", "commit"}

\* the same with the event sent from inside the transaction
FailAnnounced(r) ==
  /\ req[r].pc \in InTransaction
  /\ req' = [req EXCEPT ![r] = Rejected(req[r], 500)]
  /\ db' = RolledBack(db, req[r].wr)
  /\ tl' = RolledBack(tl, req[r].tlwr)
  /\ events' = IF req[r].updated # NoRow
                 THEN Append(events, [n |-> req[r].n, id |-> req[r].id,
                                      original |-> req[r].original,
                                      updated |-> req[r].updated])
                 ELSE events
  /\ UNCHANGED <<nreq, mode>>

Fail(r) ==
  /\ req[r].pc \in InTransaction
  /\ req' = [req EXCEPT ![r] = Rejected(req[r], 500)]
  /\ db' = RolledBack(db, req[r].wr)
  /\ tl' = RolledBack(tl, req[r].tlwr)
  /\ UNCHANGED <<events, nreq, mode>>

Next ==
  \E r \in Reqs :
    \/ Begin(r)
    \/ FindOne(r)
    \/ Update(r)
    \/ Count(r)
    \/ Shift(r)
    \/ FindAll(r)
    \/ Save(r)
    \/ Sync(r)
    \/ Commit(r)
    \/ Publish(r)
    \/ Fail(r)

\* two timelines: milestones 1 and 2 are the first timeline, milestone 3 is the
\* second one and has the order milestone 2 has in the first
CrossRows ==
  [InitRows(FALSE, FALSE, FALSE) EXCEPT ![3].timelineId = 2, ![3].order = 2]

InitCross ==
  /\ db = CrossRows
  /\ tl = [t \in Timelines |-> IF t = 1 THEN db[2].endDate ELSE db[3].endDate]
  /\ req = [r \in Reqs |-> Idle]
  /\ events = << >>
  /\ nreq = 0
  /\ mode = "conc"

\* the steps of requests whose queries all succeed
NextOk ==
  \E r \in Reqs :
    \/ Begin(r)
    \/ FindOne(r)
    \/ Update(r)
    \/ Count(r)
    \/ Shift(r)
    \/ FindAll(r)
    \/ Save(r)
    \/ Sync(r)
    \/ Commit(r)
    \/ Publish(r)

Spec == Init /\ [][Next]_vars
\* requests one at a time, no query fails: the updates that run to their commit
SpecOk == Init /\ [][NextOk]_vars
SpecCross == InitCross /\ [][Next]_vars
SpecConc == InitConc /\ [][Next]_vars
SpecTwice == InitTwice /\ [][Next]_vars

\* ------------------------------------------------------------------ the update, run alone
\* The rows and the timelines after one update runs from snapshot s with no
\* other request and no failure; a rejected update leaves s as it is.
Serve(s, t, id, p, today) ==
  LET m == s.db[id]
  IN IF m.timelineId # t \/ CompletionBeforeStart(m, p) THEN s
     ELSE
       LET inst == Resolve(m, p, today)
           v1 == [s.db EXCEPT ![id] = inst]
           moved == m.order # inst.order /\ CountAtOrder(v1, inst, id) # 0
           T == ShiftTargets(v1, m, inst, id)
           v2 == IF moved
                   THEN [i \in Ids |-> IF i \in T
                                         THEN [v1[i] EXCEPT !.order = @ + ShiftDelta(m, inst)]
                                         ELSE v1[i]]
                   ELSE v1
       IN IF ~CascadeTriggered(m, inst) THEN [db |-> v2, tl |-> s.tl]
          ELSE
            LET ids == CHOOSE x \in SortedByOrder(v2, AffectedIds(v2, inst)) : TRUE
                plan == CascadePlan(v2, ids, m, inst)
                at(i) == {k \in 1..Len(plan) : plan[k].id = i}
            IN [db |-> [i \in Ids |-> IF at(i) # {}
                                        THEN plan[CHOOSE k \in at(i) : TRUE].inst
                                        ELSE v2[i]],
                tl |-> [s.tl EXCEPT ![t] = LastEndDate(plan, inst)]]

TypeOK ==
  /\ nreq \in 0..2
  /\ mode \in {"seq", "conc", "twice"}
  /\ \A r \in Reqs : req[r].pc \in {"idle", "done", "publish"} \cup InTransaction

\* In Spec a request that commits leaves what Serve computes.
ServeAgrees ==
  \A r \in Reqs :
    mode = "seq" /\ req[r].committed =>
      [db |-> db, tl |-> tl]
        = Serve(req[r].pre, req[r].t, req[r].id, req[r].patch, req[r].today)

\* ================================================================== properties
\* the milestones of timeline t
InTimeline(rows, t) == {i \in Ids : rows[i].timelineId = t}

OrderUnique(rows) ==
  \A i, j \in Ids :
    i # j /\ rows[i].timelineId = rows[j].timelineId => rows[i].order # rows[j].order

\* the milestones right before i in order
Predecessors(rows, i) ==
  {j \in InTimeline(rows, rows[i].timelineId) :
     /\ rows[j].order < rows[i].order
     /\ \A k \in InTimeline(rows, rows[i].timelineId) :
          rows[k].order < rows[i].order => rows[k].order <= rows[j].order}

\* one day after the completionDate if set, else after the endDate
DayAfter(m) == (IF m.completionDate # NoDate THEN m.completionDate ELSE m.endDate) + 1

Contiguous(rows, i) == \A j \in Predecessors(rows, i) : rows[i].startDate = DayAfter(rows[j])

\* the milestones of highest order in timeline t
Highest(rows, t) ==
  {i \in InTimeline(rows, t) : \A j \in InTimeline(rows, t) : rows[j].order <= rows[i].order}

TimelineSynced(rows, ends, t) == \A i \in Highest(rows, t) : ends[t] = rows[i].endDate

EndDateConsistent(m) == m.endDate = m.startDate + (m.duration - 1)

\* request r has committed; in Spec no later request has begun, so db and tl are
\* what it left
Committed(r) == req[r].committed
Cascaded(r) == Committed(r) /\ CascadeTriggered(req[r].original, req[r].updated)

\* C1 (order uniqueness): after any sequence of completed updates, no two
\* milestones of one timeline share an order.
C1_OrderUniqueness == OrderUnique(db)

\* an update moved a milestone to an order another milestone held
C1_Witness ==
  \E r \in Reqs :
    /\ Committed(r)
    /\ req[r].original.order # req[r].updated.order
    /\ \E i \in Ids \ {req[r].id} : req[r].pre.db[i].order = req[r].updated.order
    /\ \E i \in Ids \ {req[r].id} : db[i].order # req[r].pre.db[i].order

\* C2 as claimed (date contiguity): after an update that ran the cascade, every
\* milestone of the timeline with a predecessor in order starts the day after
\* the predecessor's completionDate, or endDate if that is not set.
C2_ContiguityEverywhere ==
  \A r \in Reqs :
    Cascaded(r) => \A i \in InTimeline(db, req[r].t) : Contiguous(db, i)

\* C2 as amended: after an update that ran the cascade, every milestone ordered
\* after the edited one starts the day after its predecessor's completionDate,
\* or endDate if that is not set.
C2_ContiguityDownstream ==
  \A r \in Reqs :
    Cascaded(r) =>
      \A i \in InTimeline(db, req[r].t) :
        db[i].order > db[req[r].id].order => Contiguous(db, i)

\* a cascade moved two milestones after a completed predecessor, in an update
\* that also moved the edited milestone
C2_Witness ==
  \E r \in Reqs :
    /\ Cascaded(r)
    /\ req[r].original.order # req[r].updated.order
    /\ req[r].updated.completionDate # NoDate
    /\ Cardinality({i \in Ids \ {req[r].id} :
                      /\ db[i].order > db[req[r].id].order
                      /\ db[i].startDate # req[r].pre.db[i].startDate}) = 2

\* C3 (timeline end-date sync after a cascade): once an update that ran the
\* cascade has committed, the timeline's endDate is the endDate of its
\* milestone of highest order.
C3_TimelineSyncAfterCascade ==
  \A r \in Reqs : Cascaded(r) => TimelineSynced(db, tl, req[r].t)

\* a cascade after a move changed the timeline's endDate
C3_Witness ==
  \E r \in Reqs :
    /\ Cascaded(r)
    /\ req[r].original.order # req[r].updated.order
    /\ req[r].coming # << >>
    /\ tl[req[r].t] # req[r].pre.tl[req[r].t]

\* C4 as claimed: after any successful update the timeline's endDate is the
\* endDate of the milestone of highest order, if it was before.
C4_TimelineSyncAlways ==
  \A r \in Reqs :
    Committed(r) /\ TimelineSynced(req[r].pre.db, req[r].pre.tl, req[r].t)
      => TimelineSynced(db, tl, req[r].t)

\* C4 as amended: the same, for the updates that run the cascade or leave the
\* edited milestone's order as it was.
C4_TimelineSyncUnlessMoved ==
  \A r \in Reqs :
    /\ Committed(r)
    /\ TimelineSynced(req[r].pre.db, req[r].pre.tl, req[r].t)
    /\ (CascadeTriggered(req[r].original, req[r].updated)
          \/ req[r].original.order = req[r].updated.order)
    => TimelineSynced(db, tl, req[r].t)

\* an update of the last milestone that ran no cascade and moved nothing
C4_Witness ==
  \E r \in Reqs :
    /\ Committed(r)
    /\ ~CascadeTriggered(req[r].original, req[r].updated)
    /\ req[r].original.order = req[r].updated.order
    /\ req[r].original # req[r].updated
    /\ req[r].id \in Highest(db, req[r].t)
    /\ TimelineSynced(db, tl, req[r].t)

\* C5 (endDate consistency): after any successful update every milestone of the
\* timeline has endDate = startDate + (duration - 1) days, if all had before.
C5_EndDateConsistency ==
  \A r \in Reqs :
    Committed(r) /\ (\A i \in InTimeline(req[r].pre.db, req[r].t) :
                       EndDateConsistent(req[r].pre.db[i]))
      => \A i \in InTimeline(db, req[r].t) : EndDateConsistent(db[i])

\* the visible milestones of lowest order after the edited one
FirstVisibleAfter(rows, id) ==
  LET after == {i \in InTimeline(rows, rows[id].timelineId) :
                  rows[i].order > rows[id].order /\ ~rows[i].hidden}
  IN {i \in after : \A j \in after : rows[i].order <= rows[j].order}

\* C6 (single activation): the cascade sets the status of at most one milestone,
\* to ACTIVE, and that one is the visible milestone of lowest order after the
\* edited one; it sets none when the completionDate did not change.
C6_SingleActivation ==
  \A r \in Reqs :
    Committed(r) =>
      LET changed == {i \in Ids \ {req[r].id} : db[i].status # req[r].pre.db[i].status}
      IN /\ Cardinality(req[r].activated) <= 1
         /\ req[r].activated \subseteq FirstVisibleAfter(db, req[r].id)
         /\ changed \subseteq req[r].activated
         /\ \A i \in req[r].activated : db[i].status = ACTIVE /\ ~db[i].hidden
         /\ req[r].original.completionDate = req[r].updated.completionDate
              => req[r].activated = {}

\* a completionDate change passed over a hidden milestone and activated the next
C6_Witness ==
  \E r \in Reqs :
    /\ Committed(r)
    /\ req[r].original.completionDate # req[r].updated.completionDate
    /\ \E h \in Ids, a \in Ids :
         /\ db[h].hidden
         /\ db[req[r].id].order < db[h].order
         /\ db[h].order < db[a].order
         /\ req[r].activated = {a}
         /\ req[r].pre.db[a].status # ACTIVE

\* C7 (atomicity): a request that has not committed, in flight or ended in an
\* error (not found, validation, a failed query of any step), has changed no
\* milestone row and no timeline row.
C7_Atomicity ==
  \A r \in Reqs :
    req[r].pc # "idle" /\ ~req[r].committed
      => db = req[r].pre.db /\ tl = req[r].pre.tl

\* a save of the cascade failed after the edited milestone and other rows were
\* written in the transaction
C7_Witness ==
  \E r \in Reqs :
    /\ req[r].pc = "done"
    /\ req[r].code = 500
    /\ req[r].failedAt = "save"
    /\ req[r].id \in req[r].undone
    /\ Cardinality(req[r].undone) >= 2

\* the publish calls made for request number n
EventsOf(n) == {k \in 1..Len(events) : events[k].n = n}

\* C8 (event emission): pubsub.publish is called only after the commit, once
\* for a request that committed and never for one that failed before; the
\* payload is the edited milestone before and after the edit, and no other
\* milestone is announced.
C8_EventAfterCommit ==
  /\ \A j, k \in 1..Len(events) : j # k => events[j].n # events[k].n
  /\ \A r \in Reqs :
       req[r].pc # "idle" =>
         /\ Cardinality(EventsOf(req[r].n))
              = IF req[r].pc = "done" /\ req[r].committed THEN 1 ELSE 0
         /\ \A k \in EventsOf(req[r].n) :
              /\ events[k].id = req[r].id
              /\ events[k].original = req[r].pre.db[req[r].id]
              /\ events[k].updated = db[req[r].id]

\* one event was sent for an update that changed other milestones too
C8_Witness ==
  \E r \in Reqs :
    /\ req[r].pc = "done"
    /\ req[r].committed
    /\ Cardinality(EventsOf(req[r].n)) = 1
    /\ \E i \in Ids \ {req[r].id} : db[i] # req[r].pre.db[i]

\* C9 (publish failure is isolated): when publishing fails after the commit, the
\* committed state stays and the request ends with the success response.
C9_PublishFailureIsolated ==
  \A r \in Reqs :
    req[r].pc = "done" /\ req[r].published \in {"rejects", "throws"}
      => /\ db[req[r].id] = req[r].updated
         /\ req[r].response = "ok"

\* C10 (same-timeline mutual exclusion): when two concurrent updates have both
\* committed, the rows and the timelines are what the two updates leave when
\* run one after the other in some order, and the orders are unique.
C10_Serializable ==
  (\A r \in Reqs : req[r].pc = "done" /\ req[r].committed) =>
    LET s0 == req[1].pre
        a == req[1]
        b == req[2]
        ab == Serve(Serve(s0, a.t, a.id, a.patch, a.today), b.t, b.id, b.patch, b.today)
        ba == Serve(Serve(s0, b.t, b.id, b.patch, b.today), a.t, a.id, a.patch, a.today)
    IN /\ [db |-> db, tl |-> tl] \in {ab, ba}
       /\ OrderUnique(db)

\* C11 (rejected requests have no effect): a request whose milestone is not in
\* the given timeline, or whose non-null completionDate is before the stored
\* startDate, ends in an error (404, 422) without the merge or any later step,
\* changes no row and publishes no event.
C11_RejectedNoEffect ==
  \A r \in Reqs :
    req[r].pc = "done" =>
      LET q == req[r]
          m == q.pre.db[q.id]
          absent == m.timelineId # q.t
          early == /\ "completionDate" \in q.patch.has
                   /\ q.patch.completionDate # NoDate
                   /\ q.patch.completionDate < m.startDate
      IN /\ absent \/ early =>
              /\ ~q.committed
              /\ q.response = "error"
              /\ q.failedAt = "findOne"
              /\ q.code \in {IF absent THEN 404 ELSE 422, 500}
         /\ q.code \in {404, 422} =>
              /\ absent \/ early
              /\ q.updated = NoRow
              /\ q.undone = {}
              /\ db = q.pre.db
              /\ tl = q.pre.tl
              /\ EventsOf(q.n) = {}

\* a request was rejected for its completionDate
C11_Witness ==
  \E r \in Reqs :
    /\ req[r].pc = "done"
    /\ req[r].code = 422
    /\ req[r].pre.db[req[r].id].timelineId = req[r].t
    /\ req[r].patch.completionDate # NoDate
    /\ req[r].patch.completionDate < req[r].pre.db[req[r].id].startDate

\* C12 (order shift result): when the edited milestone moves from order M to an
\* order K that another milestone holds, the others in [M+1, K] go down by one
\* (K > M) or the others in [K, M-1] go up by one (K < M), the edited one ends
\* at K and the rest keep their order; with K free no other order changes.
C12_OrderShiftResult ==
  \A r \in Reqs :
    Committed(r) =>
      LET q == req[r]
          M == q.pre.db[q.id].order
          K == db[q.id].order
          others == InTimeline(db, q.t) \ {q.id}
          occupied == \E i \in others : q.pre.db[i].order = K
          was(i) == q.pre.db[i].order
      IN /\ K = IF "order" \in q.patch.has THEN q.patch.order ELSE M
         /\ \A i \in others :
              db[i].order =
                IF occupied /\ K > M /\ was(i) >= M + 1 /\ was(i) <= K THEN was(i) - 1
                ELSE IF occupied /\ K < M /\ was(i) >= K /\ was(i) <= M - 1 THEN was(i) + 1
                ELSE was(i)

\* a milestone moved up to a held order and the two behind it went down
C12_Witness ==
  \E r \in Reqs :
    /\ Committed(r)
    /\ db[req[r].id].order > req[r].pre.db[req[r].id].order
    /\ Cardinality({i \in Ids \ {req[r].id} :
                      db[i].order = req[r].pre.db[i].order - 1}) = 2

\* the edited milestone's resolved fields are the stored ones
NoOpEdit(r) ==
  /\ req[r].updated.duration = req[r].original.duration
  /\ req[r].updated.completionDate = req[r].original.completionDate
  /\ req[r].updated.status = req[r].original.status
  /\ req[r].updated.order = req[r].original.order

\* request r left the other milestones and the timelines as they were
OthersUntouched(r) ==
  /\ \A i \in Ids \ {req[r].id} : db[i] = req[r].pre.db[i]
  /\ tl = req[r].pre.tl

\* request r is the second submission of an update that committed the first time
Resubmitted(r) == Committed(r) /\ req[r].n = 2 /\ EventsOf(1) # {}

\* C13 as claimed (idempotence of no-op edits): an update whose resolved fields
\* equal the stored ones changes no other milestone and no timeline, and the
\* second of two equal updates in a row changes none either.
C13_IdempotentTwice ==
  \A r \in Reqs :
    /\ Committed(r) /\ NoOpEdit(r) => OthersUntouched(r)
    /\ Resubmitted(r) => OthersUntouched(r)

\* the body asks for COMPLETED with a null completionDate
CompletedWithoutDate(p) ==
  /\ "status" \in p.has /\ p.status = COMPLETED
  /\ "completionDate" \in p.has /\ p.completionDate = NoDate

\* C13 as amended: an update whose resolved fields equal the stored ones changes
\* no other milestone and no timeline; the second of two equal updates in a row
\* changes none either, unless the body asks for COMPLETED with a null
\* completionDate.
C13_IdempotentNoOp ==
  \A r \in Reqs :
    /\ Committed(r) /\ NoOpEdit(r) => OthersUntouched(r)
    /\ Resubmitted(r) /\ ~CompletedWithoutDate(req[r].patch)
         => OthersUntouched(r)

\* an update that moved a milestone and ran the cascade was submitted again and
\* committed again
C13_Witness ==
  \E r \in Reqs :
    /\ Resubmitted(r)
    /\ req[r].patch.has = {"order", "duration"}
    /\ req[r].pre.db # InitRows(FALSE, FALSE, FALSE)
    /\ req[r].pre.db[req[r].id].order # InitRows(FALSE, FALSE, FALSE)[req[r].id].order
    /\ \E i \in Ids \ {req[r].id} :
         req[r].pre.db[i].startDate # InitRows(FALSE, FALSE, FALSE)[i].startDate

\* C14 (returned snapshot is the committed state): the milestone sent in the
\* response and as `updated` in the event is the edited milestone's row as it
\* is stored at the commit; no step after the snapshot (count, shift, cascade,
\* timeline sync) writes the edited milestone's row.
C14_SnapshotIsCommitted ==
  \A r \in Reqs :
    /\ req[r].pc \in {"count", "shift", "findAll", "save", "sync", "commit"}
         => View(r)[req[r].id] = req[r].updated
    /\ Committed(r) =>
         /\ db[req[r].id] = req[r].updated
         /\ \A k \in EventsOf(req[r].n) : events[k].updated = db[req[r].id]

\* a successful update that shifted another milestone and ran the cascade over
\* a changed row
C14_Witness ==
  \E r \in Reqs :
    /\ Committed(r) /\ req[r].response = "ok" /\ req[r].cascade
    /\ req[r].original.order # req[r].updated.order
    /\ EventsOf(req[r].n) # {}
    /\ \E i \in Ids \ {req[r].id} : db[i].order # req[r].pre.db[i].order
    /\ \E i \in Ids \ {req[r].id} : db[i].startDate # req[r].pre.db[i].startDate
    /\ db[req[r].id] = req[r].updated

\* C15 (status derivation and its precedence): when the requested status differs
\* from the stored one, a transition to COMPLETED stores the supplied
\* completionDate, or today when none is supplied, and a transition to ACTIVE
\* stores today as startDate; the status is forced to COMPLETED exactly when the
\* status did not change and a non-null completionDate different from the stored
\* one is supplied; a status changed to another one than COMPLETED is kept
\* whatever the completionDate.
C15_StatusDerivation ==
  \A r \in Reqs :
    Committed(r) =>
      LET p == req[r].patch
          o == req[r].pre.db[req[r].id]
          m == db[req[r].id]
          asksStatus == "status" \in p.has
          asksDate == "completionDate" \in p.has /\ p.completionDate # NoDate
          changes == asksStatus /\ p.status # o.status
      IN /\ changes /\ p.status = COMPLETED =>
              /\ m.status = COMPLETED
              /\ m.completionDate = IF asksDate THEN p.completionDate ELSE req[r].today
         /\ changes /\ p.status = ACTIVE => m.startDate = req[r].today
         /\ ~(changes /\ p.status = ACTIVE) => m.startDate = o.startDate
         /\ changes => m.status = p.status
         /\ ~changes =>
              m.status = IF asksDate /\ p.completionDate # o.completionDate
                           THEN COMPLETED ELSE o.status

\* a request for ACTIVE with a new completionDate on a milestone that was not
\* active: the status stored is ACTIVE, and the completionDate is the new one
C15_Witness ==
  \E r \in Reqs :
    /\ Committed(r)
    /\ req[r].patch.has = {"status", "completionDate"}
    /\ req[r].patch.status = ACTIVE
    /\ req[r].patch.completionDate # NoDate
    /\ req[r].pre.db[req[r].id].status # ACTIVE
    /\ req[r].pre.db[req[r].id].completionDate # req[r].patch.completionDate
    /\ db[req[r].id].status = ACTIVE
    /\ db[req[r].id].completionDate = req[r].patch.completionDate
    /\ db[req[r].id].startDate = req[r].today

\* C16 (cascade trigger and frame): the cascade and the timeline sync run if
\* and only if the edited milestone's stored completionDate or duration after
\* the merge differs from the one before the update; an update without such a
\* change leaves the startDate, endDate and status of every other milestone and
\* the endDate of the timeline as they were.
C16_CascadeTriggerAndFrame ==
  \A r \in Reqs :
    Committed(r) =>
      LET o == req[r].pre.db[req[r].id]
          m == db[req[r].id]
          differs == o.completionDate # m.completionDate \/ o.duration # m.duration
      IN /\ req[r].cascade <=> differs
         /\ differs => tl[req[r].t] = req[r].lastEnd
         /\ ~differs =>
              /\ req[r].coming = << >> /\ req[r].activated = {}
              /\ tl = req[r].pre.tl
              /\ \A i \in Ids \ {req[r].id} :
                   /\ db[i].startDate = req[r].pre.db[i].startDate
                   /\ db[i].endDate = req[r].pre.db[i].endDate
                   /\ db[i].status = req[r].pre.db[i].status

\* an update of order and status moved the milestone to the front of a timeline
\* whose dates no longer follow from it, and ran no cascade
C16_Witness ==
  \E r \in Reqs :
    /\ Committed(r) /\ ~req[r].cascade
    /\ req[r].patch.has = {"order", "status"}
    /\ req[r].original.order # req[r].updated.order
    /\ req[r].original.status # req[r].updated.status
    /\ \E i \in Ids \ {req[r].id} : db[i].order # req[r].pre.db[i].order
    /\ \E i \in Ids \ {req[r].id} :
         /\ db[i].timelineId = req[r].t
         /\ db[i].order > db[req[r].id].order
         /\ db[i].startDate # NextStart(db[req[r].id])

\* seq lists exactly the ids of S, by strictly ascending order in rows
Ascending(rows, seq, S) ==
  /\ {seq[k] : k \in 1..Len(seq)} = S
  /\ \A a, b \in 1..Len(seq) : a < b => rows[seq[a]].order < rows[seq[b]].order

\* C17 (step ordering when both triggers fire): in an update that changes the
\* order and the duration or completionDate, the edited milestone is written
\* first, the order shift comes second and the cascade last: the cascade
\* recomputes exactly the milestones whose order as stored after the shift is
\* greater than the edited milestone's new order, in ascending order of those
\* orders.
C17_ShiftBeforeCascade ==
  \A r \in Reqs :
    LET q == req[r]
        both == /\ q.updated # NoRow
                /\ q.original.order # q.updated.order
                /\ CascadeTriggered(q.original, q.updated)
        shifted == {i \in Ids \ {q.id} : View(r)[i].order # q.pre.db[i].order}
        after == {i \in Ids : /\ db[i].timelineId = q.t
                               /\ db[i].order > db[q.id].order}
    IN /\ both /\ q.pc \in {"count", "shift"} =>
            /\ ~q.cascade /\ shifted = {}
            /\ View(r)[q.id] = q.updated
       /\ both /\ q.pc \in {"findAll", "save", "sync", "commit"} =>
            /\ View(r)[q.id] = q.updated
            /\ OrderUnique(View(r))
            /\ \A i \in Ids \ {q.id} :
                 View(r)[i].startDate # q.pre.db[i].startDate => q.cascade
       /\ both /\ Committed(r) =>
            /\ q.cascade
            /\ Ascending(db, q.coming, after)
            /\ \A i \in after :
                 db[i].endDate = AddDays(db[i].startDate, db[i].duration - 1)
            /\ \A k \in 1..Len(q.coming) :
                 db[q.coming[k]].startDate =
                   NextStart(IF k = 1 THEN db[q.id] ELSE db[q.coming[k - 1]])

\* one update changed order and duration: a milestone that was shifted behind
\* the edited one was then recomputed by the cascade
C17_Witness ==
  \E r \in Reqs :
    /\ Committed(r) /\ req[r].cascade
    /\ req[r].patch.has = {"order", "duration"}
    /\ req[r].original.order > req[r].updated.order
    /\ req[r].original.duration # req[r].updated.duration
    /\ \E i \in Ids \ {req[r].id} :
         /\ req[r].pre.db[i].order < req[r].original.order
         /\ db[i].order = req[r].pre.db[i].order + 1
         /\ \E k \in 1..Len(req[r].coming) : req[r].coming[k] = i
         /\ db[i].startDate # req[r].pre.db[i].startDate

\* the rows of timeline t, as a function
RowsOf(rows, t) == [i \in InTimeline(rows, t) |-> rows[i]]

\* C18 (cross-timeline isolation): an update of a milestone of one timeline,
\* alone or concurrent with updates of another timeline, writes no milestone of
\* another timeline and no other timeline's endDate: a timeline no request
\* addresses stays as it was, and a timeline one request addresses ends as that
\* request alone leaves it.
C18_CrossTimelineIsolation ==
  /\ \A r \in Reqs :
       /\ \A i \in DOMAIN req[r].wr : db[i].timelineId = req[r].t
       /\ DOMAIN req[r].tlwr \subseteq {req[r].t}
       /\ \A k \in 1..Len(req[r].coming) : db[req[r].coming[k]].timelineId = req[r].t
  /\ \A r \in Reqs :
       req[r].n = 1 =>
         LET s0 == req[r].pre
         IN \A b \in Timelines :
              LET on == {o \in Reqs : req[o].pc # "idle" /\ req[o].t = b}
              IN /\ on = {} =>
                      RowsOf(db, b) = RowsOf(s0.db, b) /\ tl[b] = s0.tl[b]
                 /\ \A o \in on :
                      on = {o} /\ req[o].pc = "done" =>
                        LET s1 == IF req[o].committed
                                    THEN Serve(s0, req[o].t, req[o].id, req[o].patch,
                                               req[o].today)
                                    ELSE s0
                        IN RowsOf(db, b) = RowsOf(s1.db, b) /\ tl[b] = s1.tl[b]

\* two updates ran at the same time on the two timelines: one moved a milestone
\* of the first timeline onto the order the other timeline's milestone has, the
\* other changed the duration of that milestone
C18_Witness ==
  \E r, o \in Reqs :
    /\ req[r].t = 1 /\ req[o].t = 2
    /\ req[r].n = 1 /\ req[o].pc \in {"update", "findAll", "sync", "commit"}
    /\ Committed(r)
    /\ req[r].original.order # req[r].updated.order
    /\ \E i \in Ids \ {req[r].id} : db[i].order # req[r].pre.db[i].order
    /\ \E i \in Ids : db[i].timelineId = 2 /\ db[i].order = req[r].updated.order
    /\ req[o].patch.has = {"duration"}

\* every milestone that carries a completionDate was completed on or after the
\* day it starts
CompletionAfterStart(rows) ==
  \A i \in Ids : rows[i].completionDate # NoDate =>
                    rows[i].completionDate >= rows[i].startDate

\* C19 (completion date never precedes start date): after a successful update
\* every milestone with a completionDate has completionDate >= startDate,
\* provided this held before the update.
C19_CompletionNotBeforeStart ==
  \A r \in Reqs :
    Committed(r) /\ CompletionAfterStart(req[r].pre.db) => CompletionAfterStart(db)

\* C20 (relative order of the other milestones): in an update that changes the
\* edited milestone's order, two other milestones of the timeline ordered a
\* before b before the update are ordered a before b after it.
C20_RelativeOrderKept ==
  \A r \in Reqs :
    Committed(r) /\ req[r].original.order # req[r].updated.order =>
      \A a, b \in InTimeline(db, req[r].t) \ {req[r].id} :
        req[r].pre.db[a].order < req[r].pre.db[b].order => db[a].order < db[b].order

\* a move over a gap in the orders: a milestone was shifted, the one after the
\* gap was not, and the two are still apart
C20_Witness ==
  \E r \in Reqs :
    /\ Committed(r) /\ req[r].original.order # req[r].updated.order
    /\ \E a, b \in InTimeline(db, req[r].t) \ {req[r].id} :
         /\ req[r].pre.db[a].order < req[r].pre.db[b].order
         /\ db[a].order # req[r].pre.db[a].order
         /\ db[b].order = req[r].pre.db[b].order
         /\ db[a].order < db[b].order

====
